---------------------------- MODULE Spec2Model ----------------------------
(***************************************************************************)
(* refindgen: boot catalog synchronisation.                                *)
(*                                                                         *)
(*   src/src/fs.rs          FileTracker, copy_atomic, write_atomic         *)
(*   src/src/generation.rs  get_generations, generate_config_entry,        *)
(*                          format_boot_entry, copy_kernel_to_efi          *)
(*   src/src/efi.rs         setup_efi_boot_entry and its helpers           *)
(*   src/src/main.rs        generate_config_string (dry run)               *)
(*                                                                         *)
(* File names are sequences of tokens; the token "." is the dot that       *)
(* Path::with_extension looks for and "-" the dash format! inserts.        *)
(***************************************************************************)
EXTENDS Integers, Sequences, FiniteSets, TLC

VARIABLES
    disk,       \* kernels directory: file name -> [kind, data]
    files,      \* FileTracker.files: file name -> BOOLEAN (used)
    tpc,        \* "start" before FileTracker::new, "run" after
    scanned,    \* the paths FileTracker::new recorded
    disk0,      \* the directory as FileTracker::new saw it
    sweep,      \* the last cleanup() call: what it saw and what it removed
    staged,     \* one record per copy_kernel_to_efi call that returned Ok
    copies,     \* destination -> number of copy_atomic calls that wrote it
    marks,      \* the paths passed to mark_used so far
    entry,      \* the last generate_config_entry call: input and result
    calls,      \* number of API calls made so far
    atomic,     \* the last copy_atomic / write_atomic call: arguments and result
    fw,         \* firmware: [entries: id -> entry, order: BootOrder]
    fw0,        \* the firmware as setup_efi_boot_entry found it
    epc,        \* setup_efi_boot_entry: "list", "locate", "delete", "create",
                \* "ok" (returned Ok), "err" (returned Err)
    cmds,       \* the efibootmgr invocations made, with their exit status
    efi,        \* setup_efi_boot_entry's locals
    cat,        \* a generation.rs get_generations call: the lister's output,
                \* the cap, and what the call returned
    host,       \* what main.rs reads: symlinks, working directory, lister
    mpc,        \* generate_config_string: "gather", "select", "selected", "err"
    gens,       \* generate_config_string's `gens`
    default,    \* generate_config_string's `default`
    config,     \* what generate_config_string returned, and its arguments
    split       \* a partition device node and what the device split made of it

stagingVars == <<files, tpc, scanned, disk0, sweep, staged, copies, marks, entry>>

efiVars == <<fw, fw0, epc, cmds, efi>>

mainVars == <<host, mpc, gens, default, config>>

restVars == <<efiVars, cat, mainVars, split>>

vars == <<disk, calls, stagingVars, atomic, restVars>>

(***************************************************************************)
(* Bounds                                                                  *)
(***************************************************************************)
MaxCalls == 3
MaxAtomicCalls == 2

(***************************************************************************)
(* Sequence helpers                                                        *)
(***************************************************************************)
RECURSIVE SetToSeqs(_)
\* every ordering of a finite set (HashMap iteration order is unspecified)
SetToSeqs(S) ==
    IF S = {} THEN {<<>>}
    ELSE UNION {{<<x>> \o t : t \in SetToSeqs(S \ {x})} : x \in S}


(***************************************************************************)
(* Paths.  A file of the kernels directory is known by its file name, a    *)
(* sequence of tokens.  A source path is [root, dir, file]: the name of    *)
(* its parent directory, its own file name and whatever lies above.        *)
(***************************************************************************)
RECURSIVE LastDot(_)
\* position of the last "." token of a file name, 0 when there is none
LastDot(name) ==
    IF name = <<>> THEN 0
    ELSE IF name[Len(name)] = "." THEN Len(name)
    ELSE LastDot(SubSeq(name, 1, Len(name) - 1))

\* Path::with_extension(ext): the stem, then "." and ext.  A name without
\* a dot, or whose only dot is its first byte, is its own stem.
with_extension(name, ext) ==
    LET i == LastDot(name)
        stem == IF i <= 1 THEN name ELSE SubSeq(name, 1, i - 1)
    IN  IF name = <<>> THEN name ELSE stem \o <<".", ext>>

Put(f, k, v) == [q \in (DOMAIN f) \cup {k} |-> IF q = k THEN v ELSE f[q]]

Remove(f, k) == [q \in (DOMAIN f) \ {k} |-> f[q]]

RegularFile(data) == [kind |-> "file", data |-> data]

(***************************************************************************)
(* fs.rs: copy_atomic and write_atomic.  `fail` names the step at which    *)
(* the call fails ("none": it succeeds) and, for a copy or write that      *)
(* stops midway, how many tokens reached the temporary file.               *)
(***************************************************************************)
NoFail == [step |-> "none", cut |-> 0]

CopyFails(data) ==
    {NoFail} \cup {[step |-> s, cut |-> 0] : s \in {"mkdir", "open", "rename"}}
             \cup {[step |-> "copy", cut |-> k] : k \in 0..(Len(data) - 1)}

WriteFails(data) ==
    {NoFail} \cup {[step |-> s, cut |-> 0] : s \in {"mkdir", "create", "rename"}}
             \cup {[step |-> "write", cut |-> k] : k \in 0..(Len(data) - 1)}
             \cup {[step |-> "flush", cut |-> Len(data)]}

\* std::fs::rename(from, to) on regular files
Rename(fs, from, to) ==
    IF from = to THEN fs ELSE Remove(Put(fs, to, fs[from]), from)

copy_atomic(fs, data, dest, fail) ==
    LET temp_dest == with_extension(dest, "tmp")
    IN  IF fail.step \in {"mkdir", "open"}
        THEN [fs |-> fs, ok |-> FALSE]
        ELSE IF fail.step = "copy"
        THEN [fs |-> Put(fs, temp_dest, RegularFile(SubSeq(data, 1, fail.cut))),
              ok |-> FALSE]
        ELSE IF fail.step = "rename"
        THEN [fs |-> Put(fs, temp_dest, RegularFile(data)), ok |-> FALSE]
        ELSE [fs |-> Rename(Put(fs, temp_dest, RegularFile(data)), temp_dest, dest),
              ok |-> TRUE]

write_atomic(fs, dest, data, fail) ==
    LET temp_dest == with_extension(dest, "tmp")
    IN  IF fail.step \in {"mkdir", "create"}
        THEN [fs |-> fs, ok |-> FALSE]
        ELSE IF fail.step \in {"write", "flush"}
        THEN [fs |-> Put(fs, temp_dest, RegularFile(SubSeq(data, 1, fail.cut))),
              ok |-> FALSE]
        ELSE IF fail.step = "rename"
        THEN [fs |-> Put(fs, temp_dest, RegularFile(data)), ok |-> FALSE]
        ELSE [fs |-> Rename(Put(fs, temp_dest, RegularFile(data)), temp_dest, dest),
              ok |-> TRUE]

(***************************************************************************)
(* fs.rs: FileTracker                                                      *)
(***************************************************************************)
\* FileTracker::new: every regular file under the base directory, unused
FileTracker_new(fs) == [p \in {q \in DOMAIN fs : fs[q].kind = "file"} |-> FALSE]

\* a mark_used that only sets the flag of a path already tracked
mark_used_tracked_only(f, path) == IF path \in DOMAIN f THEN Put(f, path, TRUE) ELSE f

\* FileTracker::mark_used
mark_used(f, path) == Put(f, path, TRUE)

\* the unused entries, on disk or not
Unused_without_exists(f, fs) == {p \in DOMAIN f : ~f[p]}

\* the entries cleanup() acts on: unused and still on disk
Unused(f, fs) == {p \in DOMAIN f : ~f[p] /\ p \in DOMAIN fs}

RECURSIVE cleanup_ignoring_used(_, _, _, _)
\* cleanup without the `!used` test
cleanup_ignoring_used(f, fs, order, failAt) ==
    IF order = <<>> THEN [fs |-> (IF failAt = 0
                                  THEN [q \in (DOMAIN fs) \ (DOMAIN f) |-> fs[q]]
                                  ELSE fs),
                          ok |-> TRUE]
    ELSE IF failAt = 1 THEN [fs |-> fs, ok |-> FALSE]
    ELSE LET path == Head(order)
             next == IF path \in DOMAIN fs THEN Remove(fs, path) ELSE fs
         IN  cleanup_ignoring_used(f, next, Tail(order),
                                   IF failAt = 0 THEN 0 ELSE failAt - 1)

RECURSIVE cleanup(_, _, _, _)
\* FileTracker::cleanup over the entries in iteration order `order`; the
\* remove_file of entry number `failAt` fails (0: none does) and ends the
\* loop.  Entries that are used or gone are skipped without effect, so
\* `order` lists the others only.
cleanup(f, fs, order, failAt) ==
    IF order = <<>> THEN [fs |-> fs, ok |-> TRUE]
    ELSE IF failAt = 1 THEN [fs |-> fs, ok |-> FALSE]
    ELSE LET path == Head(order)
             next == IF ~f[path] /\ path \in DOMAIN fs THEN Remove(fs, path) ELSE fs
         IN  cleanup(f, next, Tail(order), IF failAt = 0 THEN 0 ELSE failAt - 1)


(***************************************************************************)
(* The store.  Every store file holds two tokens of data; an initrd and    *)
(* two kernels, one of them also reachable through a symlink and one with  *)
(* a namesake under another root.                                          *)
(***************************************************************************)
StorePath(root, dir, file) == [root |-> root, dir |-> dir, file |-> file]

\* Option<PathBuf>::None
None == StorePath("", <<>>, <<>>)

K1 == StorePath("/nix/store", <<"h1", "-", "linux", "-", "6", ".", "1">>, <<"bzImage">>)
K2 == StorePath("/nix/store", <<"h2", "-", "linux", "-", "6", ".", "2">>, <<"bzImage">>)
I1 == StorePath("/nix/store", <<"h3", "-", "initrd">>, <<"initrd">>)
K1Alt == StorePath("/mnt/store", <<"h1", "-", "linux", "-", "6", ".", "1">>, <<"bzImage">>)
RootFile == StorePath("/", <<>>, <<"vmlinuz">>)
L1 == StorePath("/run", <<"booted", "-", "system">>, <<"kernel">>)
Dangling == StorePath("/run", <<"booted", "-", "system">>, <<"gone">>)

StoreFiles == {K1, K2, I1, K1Alt, RootFile}

\* symlinks among the source paths
Links == [p \in {L1} |-> K1]

Data(p) ==
    IF p = K1 THEN <<"k1", "k1'">>
    ELSE IF p = K2 THEN <<"k2", "k2'">>
    ELSE IF p = I1 THEN <<"i1", "i1'">>
    ELSE IF p = K1Alt THEN <<"ka", "ka'">>
    ELSE <<"v", "v'">>

\* std::fs::canonicalize of a source path
canonicalize(p) ==
    IF p \in StoreFiles THEN [ok |-> TRUE, path |-> p]
    ELSE IF p \in DOMAIN Links /\ Links[p] \in StoreFiles
    THEN [ok |-> TRUE, path |-> Links[p]]
    ELSE [ok |-> FALSE, path |-> p]

(***************************************************************************)
(* generation.rs: copy_kernel_to_efi.  The state threaded through one      *)
(* generate_config_entry call is                                           *)
(*   [disk, files, staged, copies, n, ok, uri, lines]                      *)
(* with n the number of copy_kernel_to_efi calls made so far; the call     *)
(* number fail.at fails as fail.how says.  staged and copies are history:  *)
(* the calls that returned Ok and how often each destination was copied.   *)
(***************************************************************************)
\* format!("{}-{}", package_id, suffix)
dest_filename(package_id, suffix) == package_id \o <<"-">> \o suffix

\* format!("/efi/refind/kernels/{}", dest_filename)
kernel_uri(name) == <<"/efi/refind/kernels/">> \o name

\* the existence test lost: every call copies
dest_exists_never(fs, dest) == FALSE

\* dest_path.exists()
dest_exists(fs, dest) == dest \in DOMAIN fs

\* after the copy: its error propagated, or the destination marked used
\* and its URI returned
mark_staged(source, canon, dest, st, r) ==
    IF ~r.ok
    THEN [st EXCEPT !.ok = FALSE, !.n = @ + 1, !.disk = r.fs]
    ELSE [st EXCEPT !.n = @ + 1,
                    !.disk = r.fs,
                    !.files = mark_used(st.files, dest),
                    !.staged = @ \cup {[source |-> source, canon |-> canon,
                                        dest |-> dest,
                                        copied |-> ~dest_exists(st.disk, dest)]},
                    !.copies = IF dest_exists(st.disk, dest) THEN @
                               ELSE Put(@, dest, IF dest \in DOMAIN @
                                                 THEN @[dest] + 1 ELSE 1),
                    !.uri = kernel_uri(dest)]

\* from the canonical source on: the destination named and copied if absent
stage_canonical(source, canon, st, how) ==
    IF canon.dir = <<>>
    THEN [st EXCEPT !.ok = FALSE, !.n = @ + 1]
    ELSE mark_staged(source, canon, dest_filename(canon.dir, canon.file), st,
                     IF dest_exists(st.disk, dest_filename(canon.dir, canon.file))
                     THEN [fs |-> st.disk, ok |-> TRUE]
                     ELSE copy_atomic(st.disk, Data(canon),
                                      dest_filename(canon.dir, canon.file), how))

copy_kernel_to_efi(source, st, fail) ==
    IF ~st.ok THEN st
    ELSE IF ~canonicalize(source).ok
    THEN [st EXCEPT !.ok = FALSE, !.n = @ + 1]
    ELSE stage_canonical(source, canonicalize(source).path, st,
                         IF fail.at = st.n + 1 THEN fail.how ELSE NoFail)

(***************************************************************************)
(* bootspec.rs: BootSpec, as BootSpec::load returns it.  A parameter and   *)
(* a label are sequences of tokens; the token "\"" is a double quote.      *)
(***************************************************************************)
BootSpec(kernel, initrd, kernel_params, specialisations) ==
    [kernel |-> kernel, initrd |-> initrd, init |-> <<"/nix/store/sys/init">>,
     kernel_params |-> kernel_params, specialisations |-> specialisations]

RECURSIVE join(_, _)
\* [String]::join(sep)
join(strs, sep) ==
    IF strs = <<>> THEN <<>>
    ELSE IF Len(strs) = 1 THEN strs[1]
    ELSE strs[1] \o sep \o join(Tail(strs), sep)

Line(t, v) == [t |-> t, v |-> v]

(***************************************************************************)
(* generation.rs: format_boot_entry and generate_config_entry              *)
(***************************************************************************)
\* the entry's text, pushed once kernel and initrd are staged: s.loader is
\* the kernel's URI, s.uri the initrd's
boot_entry_text(is_submenu, bootspec, label, s) ==
    IF ~s.ok THEN [s EXCEPT !.lines = <<>>]
    ELSE [s EXCEPT !.lines =
            @ \o <<Line(IF is_submenu THEN "submenuentry" ELSE "menuentry", label)>>
              \o <<Line("loader", s.loader)>>
              \o (IF bootspec.initrd # None THEN <<Line("initrd", s.uri)>> ELSE <<>>)
              \o <<Line("options",
                        join(<<<<"init=">> \o bootspec.init>> \o bootspec.kernel_params,
                             <<" ">>))>>
              \o <<Line("}", <<>>)>>]

\* `if let Some(ref initrd) = bootspec.initrd`
stage_initrd(bootspec, s, fail) ==
    IF bootspec.initrd # None
    THEN copy_kernel_to_efi(bootspec.initrd, [s EXCEPT !.loader = s.uri], fail)
    ELSE [s EXCEPT !.loader = s.uri]

format_boot_entry(is_submenu, bootspec, label, st, fail) ==
    boot_entry_text(is_submenu, bootspec, label,
                    stage_initrd(bootspec,
                                 copy_kernel_to_efi(bootspec.kernel, st, fail), fail))

\* the loop over the specialisations left after its first round
format_specialisations_once(bootspec, order, st, fail) ==
    IF order = <<>> THEN st
    ELSE format_boot_entry(TRUE, bootspec.specialisations[Head(order)],
                           <<Head(order)>>, st, fail)

RECURSIVE format_specialisations(_, _, _, _)
\* the `for (spec_name, spec_bootspec) in &bootspec.specialisations` loop,
\* `order` being the HashMap's iteration order
format_specialisations(bootspec, order, st, fail) ==
    IF order = <<>> THEN st
    ELSE format_specialisations(
             bootspec, Tail(order),
             format_boot_entry(TRUE, bootspec.specialisations[Head(order)],
                               <<Head(order)>>, st, fail),
             fail)

\* "NixOS {} Generation {}"
generation_label(group_name, generation) ==
    <<"NixOS ", group_name, " Generation ", ToString(generation)>>

\* the outer block closed, or the error propagated
close_menu(s) ==
    IF ~s.ok THEN [s EXCEPT !.lines = <<>>]
    ELSE [s EXCEPT !.lines = @ \o <<Line("}", <<>>)>>]

\* `loaded`: BootSpec::load and symlink_metadata both returned Ok
generate_config_entry(generation, group_name, loaded, bootspec, order, st, fail) ==
    IF ~loaded THEN [st EXCEPT !.ok = FALSE]
    ELSE IF DOMAIN bootspec.specialisations # {}
    THEN close_menu(
             format_specialisations(
                 bootspec, order,
                 format_boot_entry(
                     TRUE, bootspec, <<"Default">>,
                     [st EXCEPT !.lines =
                         @ \o <<Line("menuentry",
                                     generation_label(group_name, generation))>>],
                     fail),
                 fail))
    ELSE format_boot_entry(FALSE, bootspec, generation_label(group_name, generation),
                           st, fail)

(***************************************************************************)
(* efi.rs: the text efibootmgr prints and the regular expressions          *)
(* setup_efi_boot_entry reads it with.  The text is a sequence of tokens;  *)
(* an entry id is one token of four hex digits.                            *)
(***************************************************************************)
Ids == {"0000", "0001", "0002"}

Refind == <<"rEFInd">>

RECURSIVE capture_hex_list(_)
\* ((?:[0-9a-fA-F]{4},?)*) matched at the head of `text`
capture_hex_list(text) ==
    IF text = <<>> \/ text[1] \notin Ids THEN <<>>
    ELSE IF Len(text) >= 2 /\ text[2] = ","
    THEN <<text[1], ",">> \o capture_hex_list(SubSeq(text, 3, Len(text)))
    ELSE <<text[1]>> \o capture_hex_list(Tail(text))

RECURSIVE boot_order_regex(_)
\* BootOrder: ((?:[0-9a-fA-F]{4},?)*) -- the first match, or no capture
boot_order_regex(text) ==
    IF text = <<>> THEN [found |-> FALSE, m |-> <<>>]
    ELSE IF text[1] = "BootOrder: "
    THEN [found |-> TRUE, m |-> capture_hex_list(Tail(text))]
    ELSE boot_order_regex(Tail(text))

\* Boot([0-9a-fA-F]{4})\*? rEFInd matched at the head of `text`
entry_regex_here(text) ==
    /\ Len(text) >= 4
    /\ text[1] = "Boot"
    /\ text[2] \in Ids
    /\ \/ text[3] = " " /\ text[4] = "rEFInd"
       \/ Len(text) >= 5 /\ text[3] = "*" /\ text[4] = " " /\ text[5] = "rEFInd"

RECURSIVE entry_regex(_)
\* the first match of the entry pattern in the output, capture group 1
entry_regex(text) ==
    IF text = <<>> THEN [found |-> FALSE, m |-> ""]
    ELSE IF entry_regex_here(text) THEN [found |-> TRUE, m |-> text[2]]
    ELSE entry_regex(Tail(text))

(***************************************************************************)
(* efi.rs: find_disk_device and extract_partition_number.  A device path   *)
(* is the token "/dev/" followed by the characters of the node's name.     *)
(***************************************************************************)
Digits == {"0", "1", "2", "3", "4", "5", "6", "7", "8", "9"}

Lower == {"a", "b", "c", "d", "e", "k", "l", "m", "n", "p", "s", "v"}

RECURSIVE SpanLen(_, _)
\* length of the longest prefix of s made of characters of `class`
SpanLen(s, class) ==
    IF s = <<>> \/ s[1] \notin class THEN 0 ELSE 1 + SpanLen(Tail(s), class)

Drop(s, n) == SubSeq(s, n + 1, Len(s))

StartsWith(s, prefix) ==
    Len(s) >= Len(prefix) /\ SubSeq(s, 1, Len(prefix)) = prefix

RECURSIVE contains(_, _)
\* str::contains
contains(s, pat) ==
    IF Len(s) < Len(pat) THEN FALSE
    ELSE StartsWith(s, pat) \/ contains(Tail(s), pat)

\* ^(nvme\d+n\d+)p\d+$ : the capture, or <<>> when the name does not match
nvme_regex(name) ==
    LET a == Drop(name, 4)
        i == SpanLen(a, Digits)
        b == Drop(a, i)
        j == SpanLen(Drop(b, 1), Digits)
        c == Drop(b, 1 + j)
        k == SpanLen(Drop(c, 1), Digits)
    IN  IF /\ StartsWith(name, <<"n", "v", "m", "e">>)
           /\ i >= 1
           /\ b # <<>> /\ b[1] = "n"
           /\ j >= 1
           /\ c # <<>> /\ c[1] = "p"
           /\ k >= 1
           /\ Len(c) = 1 + k
        THEN SubSeq(name, 1, 4 + i + 1 + j)
        ELSE <<>>

\* ^([a-z]+)\d+$ : the capture, or <<>> when the name does not match
simple_regex(name) ==
    LET i == SpanLen(name, Lower)
        k == SpanLen(Drop(name, i), Digits)
    IN  IF i >= 1 /\ k >= 1 /\ i + k = Len(name) THEN SubSeq(name, 1, i) ELSE <<>>

\* find_disk_device on a canonical partition path
find_disk_device(partition) ==
    LET part_name == Tail(partition)
    IN  IF contains(part_name, <<"n", "v", "m", "e">>) /\ nvme_regex(part_name) # <<>>
        THEN [ok |-> TRUE, dev |-> <<"/dev/">> \o nvme_regex(part_name)]
        ELSE IF simple_regex(part_name) # <<>>
        THEN [ok |-> TRUE, dev |-> <<"/dev/">> \o simple_regex(part_name)]
        ELSE [ok |-> FALSE, dev |-> <<>>]

RECURSIVE trim_start_matches(_, _)
\* str::trim_start_matches: the prefix removed as often as it is there
trim_start_matches(s, pat) ==
    IF pat # <<>> /\ StartsWith(s, pat)
    THEN trim_start_matches(Drop(s, Len(pat)), pat)
    ELSE s

\* extract_partition_number without the trim of the "p"
extract_partition_number_keeping_p(partition, efi_disk) ==
    trim_start_matches(partition, efi_disk)

extract_partition_number(partition, efi_disk) ==
    trim_start_matches(trim_start_matches(partition, efi_disk), <<"p">>)

Dev(name) == <<"/dev/">> \o name

Sda1 == Dev(<<"s", "d", "a", "1">>)
Nvme0n1p3 == Dev(<<"n", "v", "m", "e", "0", "n", "1", "p", "3">>)
Mmcblk0p1 == Dev(<<"m", "m", "c", "b", "l", "k", "0", "p", "1">>)

\* what find_mounted_device may return: a device node, or an error (<<>>)
MountedDevices == {Sda1, Nvme0n1p3, Mmcblk0p1, <<>>}

\* config.host_architecture
Architectures ==
    {<<"x86_64", "-linux">>, <<"i686", "-linux">>, <<"aarch64", "-linux">>,
     <<"riscv64", "-linux">>}

\* the `match config.host_architecture.as_str()` table; <<>> is the bail!
boot_file(arch) ==
    IF arch[1] = "x86_64" THEN <<"BOOTX64.EFI">>
    ELSE IF arch[1] = "i686" THEN <<"BOOTIA32.EFI">>
    ELSE IF arch[1] = "aarch64" THEN <<"BOOTAA64.EFI">>
    ELSE <<>>

\* format!("\\efi\\refind\\{}", boot_file)
efi_path(file) == <<"\\efi\\refind\\">> \o file

(***************************************************************************)
(* The firmware tool, efibootmgr, as setup_efi_boot_entry drives it: the   *)
(* listing it prints, --delete-bootnum and --create.  An entry is created  *)
(* with the id given by -b, which must be free, or with the lowest free    *)
(* id; -o replaces the boot order, without it the new id is appended.      *)
(***************************************************************************)
IdSeq == <<"0000", "0001", "0002">>

FwEntry(label, loader, dev, part) ==
    [label |-> label, loader |-> loader, dev |-> dev, part |-> part]

RECURSIVE entry_lines(_, _)
\* the Boot<id>* <label> lines of the ids `ids`, in that order
entry_lines(entries, ids) ==
    IF ids = <<>> THEN <<>>
    ELSE (IF ids[1] \in DOMAIN entries
          THEN <<"Boot", ids[1], "*", " ">> \o entries[ids[1]].label \o <<"\n">>
          ELSE <<>>) \o entry_lines(entries, Tail(ids))

\* stdout of `efibootmgr`
efibootmgr_list(f) ==
    <<"BootOrder: ">> \o join([i \in 1..Len(f.order) |-> <<f.order[i]>>], <<",">>)
        \o <<"\n">> \o entry_lines(f.entries, IdSeq)

Without(order, id) == SelectSeq(order, LAMBDA x : x # id)

\* -o XXXX,YYYY as the tool reads it
parse_order(text) == SelectSeq(text, LAMBDA x : x # ",")

\* efibootmgr --delete-bootnum -b id.  "partial": the entry's variable is
\* deleted and the rewrite of BootOrder fails
efibootmgr_delete(f, id, outcome) ==
    IF outcome = "fail" \/ id \notin DOMAIN f.entries
    THEN [fw |-> f, exit |-> 1]
    ELSE IF outcome = "partial"
    THEN [fw |-> [f EXCEPT !.entries = Remove(f.entries, id)], exit |-> 1]
    ELSE [fw |-> [entries |-> Remove(f.entries, id), order |-> Without(f.order, id)],
          exit |-> 0]

FreeIds(f) == {i \in 1..Len(IdSeq) : IdSeq[i] \notin DOMAIN f.entries}

LowestFree(f) == IdSeq[CHOOSE i \in FreeIds(f) : \A j \in FreeIds(f) : i <= j]

\* the entry and the boot order after a --create of entry `id`
created(f, id, args) ==
    [entries |-> Put(f.entries, id, FwEntry(args.L, args.l, args.d, args.p)),
     order |-> IF args.o.given THEN parse_order(args.o.v)
               ELSE Without(f.order, id) \o <<id>>]

\* efibootmgr -c [-b id] -d .. -p .. -l .. -L .. [-o ..]
efibootmgr_create(f, args, outcome) ==
    IF \/ outcome = "fail"
       \/ args.b.given /\ args.b.v \in DOMAIN f.entries
       \/ ~args.b.given /\ FreeIds(f) = {}
    THEN [fw |-> f, exit |-> 1]
    ELSE [fw |-> created(f, IF args.b.given THEN args.b.v ELSE LowestFree(f), args),
          exit |-> 0]

Given(v) == [given |-> TRUE, v |-> v]

NotGiven == [given |-> FALSE, v |-> <<>>]

\* the --create invocation of lines 64-81, without the -o argument
create_args_without_order(entry_id, efi_disk, partition_num, path, boot_order) ==
    [b |-> Given(entry_id), d |-> efi_disk, p |-> partition_num, l |-> path,
     L |-> Refind, o |-> NotGiven]

\* the --create invocation that re-creates entry `entry_id`
create_args_existing(entry_id, efi_disk, partition_num, path, boot_order) ==
    [b |-> Given(entry_id), d |-> efi_disk, p |-> partition_num, l |-> path,
     L |-> Refind, o |-> Given(boot_order)]

\* the --create invocation of a fresh entry
create_args_fresh(efi_disk, partition_num, path) ==
    [b |-> NotGiven, d |-> efi_disk, p |-> partition_num, l |-> path,
     L |-> Refind, o |-> NotGiven]

NoArgs == [b |-> NotGiven, d |-> <<>>, p |-> <<>>, l |-> <<>>, L |-> <<>>, o |-> NotGiven]

NoFw == [entries |-> <<>>, order |-> <<>>]

NoEfi == [output |-> <<>>, existing_entry |-> [found |-> FALSE, m |-> ""],
          boot_order |-> <<>>, efi_disk |-> <<>>, partition_num |-> <<>>,
          path |-> <<>>, efi_partition |-> <<>>, host_architecture |-> <<>>]

EfiIdle ==
    /\ fw = NoFw
    /\ fw0 = NoFw
    /\ epc = "idle"
    /\ cmds = <<>>
    /\ efi = NoEfi

Command(op, args, exit) == [op |-> op, args |-> args, exit |-> exit]

(***************************************************************************)
(* generation.rs and main.rs: reading the generation lister's output.  A   *)
(* line is a sequence of characters.                                       *)
(***************************************************************************)
MaxLines == 3
MaxCap == 3
MaxGen == 3

Whitespace == {" ", "\t"}

RECURSIVE trim_start(_)
trim_start(s) ==
    IF s # <<>> /\ s[1] \in Whitespace THEN trim_start(Tail(s)) ELSE s

RECURSIVE trim_end(_)
trim_end(s) ==
    IF s # <<>> /\ s[Len(s)] \in Whitespace
    THEN trim_end(SubSeq(s, 1, Len(s) - 1)) ELSE s

trim(s) == trim_end(trim_start(s))

RECURSIVE UpTo(_, _)
\* the prefix of s before its first character of `stops`
UpTo(s, stops) ==
    IF s = <<>> \/ s[1] \in stops THEN <<>> ELSE <<s[1]>> \o UpTo(Tail(s), stops)

\* line.split_whitespace().next(); <<>> is None
first_token(line) == UpTo(trim_start(line), Whitespace)

\* s.split_once(' ')
split_once(s) ==
    IF \E i \in 1..Len(s) : s[i] = " "
    THEN [some |-> TRUE, first |-> UpTo(s, {" "})]
    ELSE [some |-> FALSE, first |-> <<>>]

DigitValue(c) == CHOOSE n \in 0..9 : ToString(n) = c

RECURSIVE digits_value(_)
digits_value(s) ==
    IF s = <<>> THEN 0
    ELSE 10 * digits_value(SubSeq(s, 1, Len(s) - 1)) + DigitValue(s[Len(s)])

\* str::parse of an unsigned integer: digits, with an optional leading "+"
parse(s) ==
    LET body == IF s # <<>> /\ s[1] = "+" THEN Tail(s) ELSE s
    IN  IF body # <<>> /\ \A i \in 1..Len(body) : body[i] \in Digits
        THEN [ok |-> TRUE, v |-> digits_value(body)]
        ELSE [ok |-> FALSE, v |-> 0]

RECURSIVE filter_map_first_token(_)
\* .filter_map(|line| line.split_whitespace().next().and_then(|s| s.parse().ok()))
filter_map_first_token(lines) ==
    IF lines = <<>> THEN <<>>
    ELSE (IF parse(first_token(lines[1])).ok
          THEN <<parse(first_token(lines[1])).v>> ELSE <<>>)
         \o filter_map_first_token(Tail(lines))

\* the truncation taking the first max_generations elements
keep_first(generations, max_generations) ==
    IF Len(generations) > max_generations
    THEN SubSeq(generations, 1, max_generations)
    ELSE generations

\* lines 84-91: if len > max_generations, skip(len - max_generations)
keep_last(generations, max_generations) ==
    IF Len(generations) > max_generations
    THEN SubSeq(generations, Len(generations) - max_generations + 1, Len(generations))
    ELSE generations

\* generation.rs get_generations: `status` is how the lister ended
get_generations(stdout, status, max_generations) ==
    IF status # "ok"
    THEN [ok |-> FALSE, v |-> <<>>]
    ELSE [ok |-> TRUE, v |-> keep_last(filter_map_first_token(stdout), max_generations)]

Gen(profile, number) == [profile |-> profile, number |-> number]

RECURSIVE main_parse_lines(_, _)
\* main.rs get_generations, the loop over the lines; profile "" is None
main_parse_lines(profile, lines) ==
    IF lines = <<>> THEN <<>>
    ELSE (IF /\ split_once(trim(lines[1])).some
             /\ parse(trim(split_once(trim(lines[1])).first)).ok
          THEN <<Gen(profile, parse(trim(split_once(trim(lines[1])).first)).v)>>
          ELSE <<>>)
         \o main_parse_lines(profile, Tail(lines))

\* main.rs get_generations
main_get_generations(profile, stdout, status) ==
    IF status # "ok" THEN [ok |-> FALSE, v |-> <<>>]
    ELSE [ok |-> TRUE, v |-> main_parse_lines(profile, stdout)]

(***************************************************************************)
(* main.rs: symbolic links and the choice of the default generation.  A    *)
(* path is a directory and a name; a relative path has directory "".       *)
(***************************************************************************)
P(dir, name) == [dir |-> dir, name |-> name]

Profiles == "/nix/var/nix/profiles"
SystemProfiles == "/nix/var/nix/profiles/system-profiles"

SystemPointer == P(Profiles, <<"system">>)
CurrentSystem == P("/run", <<"current-system">>)

StoreA == P("/nix/store", <<"a-nixos-system">>)
StoreB == P("/nix/store", <<"b-nixos-system">>)

\* the directories that exist and are no links
StoreDirs == {StoreA, StoreB}

\* a relative path taken from the directory `base`
Abs(p, base) == IF p.dir = "" THEN P(base, p.name) ELSE p

\* system_dir
system_dir(profile, number) ==
    IF profile = ""
    THEN P(Profiles, <<"system-", ToString(number), "-link">>)
    ELSE P(SystemProfiles, <<profile, "-", ToString(number), "-link">>)

\* fs::read_link
read_link(p, h) ==
    IF Abs(p, h.cwd) \in DOMAIN h.links
    THEN [ok |-> TRUE, v |-> h.links[Abs(p, h.cwd)]]
    ELSE [ok |-> FALSE, v |-> p]

RECURSIVE resolve(_, _)
\* an absolute path with every link followed; a link's relative target is
\* taken from the link's directory
resolve(p, links) ==
    IF p \in DOMAIN links THEN resolve(Abs(links[p], p.dir), links)
    ELSE IF p \in StoreDirs THEN [ok |-> TRUE, v |-> p]
    ELSE [ok |-> FALSE, v |-> p]

\* fs::canonicalize
fs_canonicalize(p, h) == resolve(Abs(p, h.cwd), h.links)

\* path_eq's canon: canonicalize(p).unwrap_or_else(|_| p)
canon(p, h) == IF fs_canonicalize(p, h).ok THEN fs_canonicalize(p, h).v ELSE p

path_eq(a, b, h) == canon(a, h) = canon(b, h)

\* discover_default_target
discover_default_target(h) ==
    IF read_link(SystemPointer, h).ok THEN [some |-> TRUE, v |-> read_link(SystemPointer, h).v]
    ELSE IF read_link(CurrentSystem, h).ok
    THEN [some |-> TRUE, v |-> read_link(CurrentSystem, h).v]
    ELSE [some |-> FALSE, v |-> P("", <<>>)]

NoGen == Gen("", 0)

RECURSIVE find_generation_by_target(_, _, _)
find_generation_by_target(gs, target, h) ==
    IF gs = <<>> THEN [some |-> FALSE, v |-> NoGen]
    ELSE IF path_eq(read_link(system_dir(gs[1].profile, gs[1].number), h).v, target, h)
    THEN [some |-> TRUE, v |-> gs[1]]
    ELSE find_generation_by_target(Tail(gs), target, h)

\* newest_generation: max_by_key returns the last of the greatest elements
newest_generation(gs) ==
    gs[CHOOSE i \in 1..Len(gs) :
          /\ \A j \in 1..Len(gs) : gs[j].number <= gs[i].number
          /\ \A j \in (i + 1)..Len(gs) : gs[j].number < gs[i].number]

\* lines 75-81 of generate_config_string
select_default(gs, target, h) ==
    IF target.some /\ find_generation_by_target(gs, target.v, h).some
    THEN find_generation_by_target(gs, target.v, h).v
    ELSE newest_generation(gs)

(***************************************************************************)
(* main.rs: the details of a generation and the text of the menu.  The     *)
(* text is a sequence of lines, each an indentation, a keyword and the     *)
(* tokens after it; the token "\"" is a double quote.                      *)
(***************************************************************************)
StoreFile(dir, file) == [dir |-> dir, file |-> file]

\* <generation>/kernel and <generation>/initrd of the two systems
KernelOf(sd) ==
    IF sd = StoreA THEN StoreFile("ka-linux", "bzImage") ELSE StoreFile("kb-linux", "bzImage")

InitrdOf(sd) ==
    IF sd = StoreA THEN StoreFile("ia-initrd", "initrd") ELSE StoreFile("ib-initrd", "initrd")

\* the contents of <generation>/kernel-params
KernelParamsOf(sd) ==
    IF sd = StoreA THEN <<"quiet">>
    ELSE <<"loglevel=4", " ", "dyndbg=", "\"", "file", " ", "*", "\"">>

\* profile_path: read_link of <system_dir>/<name>; the systems of
\* `noinitrd` have no initrd link
profile_path(profile, number, name, h, noinitrd) ==
    LET sys == resolve(system_dir(profile, number), h.links)
    IN  IF ~sys.ok \/ (name = "initrd" /\ sys.v \in noinitrd)
        THEN [ok |-> FALSE, v |-> StoreFile("", "")]
        ELSE [ok |-> TRUE,
              v |-> IF name = "kernel" THEN KernelOf(sys.v) ELSE InitrdOf(sys.v)]

\* efi_target_for_store, the path rEFInd sees
efi_target_for_store(store_file) ==
    <<"/efi/nixos/", store_file.dir, "-", store_file.file, ".efi">>

\* Path::display
display(path) == <<path.dir, "/">> \o path.name

\* describe_generation(..).unwrap_or("Unknown")
describe_generation(gen_dir) ==
    IF gen_dir \in StoreDirs THEN <<"NixOS ">> \o gen_dir.name ELSE <<"Unknown">>

\* the GenDetails of generation g whose kernel and initrd links read k and i
GenDetails(g, gen_dir, k, i) ==
    [ok |-> k.ok /\ i.ok,
     profile |-> g.profile,
     number |-> g.number,
     loader |-> efi_target_for_store(k.v),
     initrd |-> efi_target_for_store(i.v),
     kernel_params |-> <<"systemConfig=">> \o display(gen_dir) \o <<" ", "init=">>
                           \o display(gen_dir) \o <<"/init", " ">>
                           \o (IF gen_dir \in StoreDirs THEN KernelParamsOf(gen_dir)
                               ELSE <<>>),
     description |-> describe_generation(gen_dir)]

\* generation_details
generation_details(g, h, noinitrd) ==
    GenDetails(g, read_link(system_dir(g.profile, g.number), h).v,
               profile_path(g.profile, g.number, "kernel", h, noinitrd),
               profile_path(g.profile, g.number, "initrd", h, noinitrd))

RECURSIVE escape_quotes(_)
\* s.replace('"', "\"\"")
escape_quotes(s) ==
    IF s = <<>> THEN <<>>
    ELSE (IF s[1] = "\"" THEN <<"\"", "\"">> ELSE <<s[1]>>) \o escape_quotes(Tail(s))

Ln(pad, t, v) == [pad |-> pad, t |-> t, v |-> v]

Blank == Ln(0, "", <<>>)

\* submenu_entry, and the '\n' pushed after it
submenu_entry(d) ==
    <<Blank,
      Ln(0, "submenuentry", <<"Generation ", ToString(d.number), " ">> \o d.description),
      Ln(4, "loader", d.loader),
      Ln(4, "initrd", d.initrd),
      Ln(4, "options", escape_quotes(trim(d.kernel_params))),
      Ln(0, "}", <<>>),
      Blank>>

RECURSIVE insert_desc(_, _)
\* g put after every element whose number is not smaller
insert_desc(sorted, g) ==
    IF sorted = <<>> THEN <<g>>
    ELSE IF sorted[1].number >= g.number
    THEN <<sorted[1]>> \o insert_desc(Tail(sorted), g)
    ELSE <<g>> \o sorted

\* the generations left in the order they were gathered in
sort_by_number_desc_skipped(gs) == gs

RECURSIVE sort_by_number_desc(_)
\* rev.sort_by(|a, b| b.number.cmp(&a.number)), a stable sort
sort_by_number_desc(gs) ==
    IF gs = <<>> THEN <<>>
    ELSE insert_desc(sort_by_number_desc(SubSeq(gs, 1, Len(gs) - 1)), gs[Len(gs)])

\* one round of the loop over `rev`: the entry of d before the text `rest`
submenu_push(d, rest) ==
    [ok |-> d.ok /\ rest.ok,
     lines |-> IF d.ok /\ rest.ok THEN submenu_entry(d) \o rest.lines ELSE <<>>]

RECURSIVE submenu_text(_, _, _)
\* lines 86-91: the loop over `rev`
submenu_text(rev, h, noinitrd) ==
    IF rev = <<>> THEN [ok |-> TRUE, lines |-> <<>>]
    ELSE submenu_push(generation_details(rev[1], h, noinitrd),
                      submenu_text(Tail(rev), h, noinitrd))

RECURSIVE trim_end_lines(_)
\* str::trim_end on a text: the empty lines at its end removed
trim_end_lines(lines) ==
    IF lines # <<>> /\ lines[Len(lines)] = Blank
    THEN trim_end_lines(SubSeq(lines, 1, Len(lines) - 1))
    ELSE lines

\* indent(s, n)
indent(lines, n) == [i \in 1..Len(lines) |-> [lines[i] EXCEPT !.pad = @ + n]]

\* the text with "}" put directly after its last line: "{}}}" in menu_entry
close_after(lines) ==
    IF lines = <<>> THEN <<Ln(0, "}", <<>>)>>
    ELSE SubSeq(lines, 1, Len(lines) - 1)
             \o <<[lines[Len(lines)] EXCEPT !.v = @ \o <<"}">>]>>

\* menu_entry
menu_entry(main, submenu_entries) ==
    <<Blank,
      Ln(0, "menuentry", <<"NixOS">>),
      Ln(4, "loader", main.loader),
      Ln(4, "initrd", main.initrd),
      Ln(4, "options", escape_quotes(trim(main.kernel_params)))>>
        \o close_after(indent(trim_end_lines(submenu_entries), 4))

\* the file --extra-config names: its text, with the '\n' added when missing
ExtraText == <<Ln(0, "scanfor", <<"manual">>)>>

\* build_config_text; extra is "none", "text" or "missing"
build_config_text(timeout, extra, main_details, submenu) ==
    [ok |-> main_details.ok /\ submenu.ok /\ extra # "missing",
     lines |-> IF main_details.ok /\ submenu.ok /\ extra # "missing"
               THEN (IF timeout.some THEN <<Ln(0, "timeout", <<ToString(timeout.v)>>)>>
                     ELSE <<>>)
                    \o (IF extra = "text" THEN ExtraText ELSE <<>>)
                    \o menu_entry(main_details, submenu.lines)
               ELSE <<>>]

NoConfig == [ok |-> FALSE, lines |-> <<>>, noinitrd |-> {}]

NoCat == [stdout |-> <<>>, status |-> "idle", max_generations |-> 0,
          done |-> FALSE, ok |-> FALSE, generations |-> <<>>]

CatalogIdle == cat = NoCat

NoHost == [links |-> <<>>, cwd |-> "/", stdout |-> <<>>, status |-> "idle",
           profiles |-> <<>>]

NoSplit == [form |-> "idle", partition |-> <<>>, disk |-> <<>>, n |-> <<>>,
            done |-> FALSE, ok |-> FALSE, efi_disk |-> <<>>, partition_num |-> <<>>]

SplitIdle == split = NoSplit

MainIdle ==
    /\ SplitIdle
    /\ host = NoHost
    /\ mpc = "idle"
    /\ gens = <<>>
    /\ default = NoGen
    /\ config = NoConfig

(***************************************************************************)
(* The inputs of a staging run: what the kernels directory holds when the  *)
(* run starts and the boot records the generations' boot.json hold.        *)
(***************************************************************************)
Dest(p) == dest_filename(p.dir, p.file)

Stray == <<"h0", "-", "linux", "-", "5", ".", "9", "-", "bzImage">>
StrayLink == <<"latest">>

InitialEntry(name) ==
    IF name = StrayLink THEN [kind |-> "symlink", data |-> <<>>]
    ELSE IF name = Dest(K1) THEN RegularFile(Data(K1))
    ELSE IF name = Dest(I1) THEN RegularFile(Data(I1))
    ELSE RegularFile(<<"old", "old'">>)

InitialNames == {Dest(K1), Dest(I1), Stray, StrayLink}

Leaf(kernel, initrd) == BootSpec(kernel, initrd, <<>>, <<>>)

\* boot.json of each generation of the profile
BootJson ==
    <<BootSpec(K1, None, <<<<"quiet">>, <<"dyndbg=", "\"", "+p", "\"">>>>, <<>>),
      BootSpec(L1, I1, <<>>, <<>>),
      BootSpec(K1Alt, None, <<>>, <<>>),
      BootSpec(Dangling, I1, <<>>, <<>>),
      BootSpec(K2, RootFile, <<>>, <<>>),
      BootSpec(K2, I1, <<>>, [n \in {"safe"} |-> Leaf(K1, None)]),
      BootSpec(K1, None, <<<<"quiet">>, <<"splash">>>>,
               [n \in {"safe", "debug"} |->
                   IF n = "safe" THEN Leaf(L1, I1) ELSE Leaf(K2, None)])>>

\* the ways a copy_atomic inside a staging call is made to fail
StagingFails ==
    {[step |-> "mkdir", cut |-> 0], [step |-> "copy", cut |-> 1],
     [step |-> "rename", cut |-> 0]}

Generations == DOMAIN BootJson

NoEntry == [generation |-> 0, names |-> {}, ok |-> FALSE, lines |-> <<>>]

NoAtomic == [op |-> "none", dest |-> <<>>, ok |-> TRUE, step |-> "none", before |-> <<>>]

NoSweep == [n |-> 0, ok |-> FALSE, removed |-> {}, marked |-> {}, before |-> <<>>]

(***************************************************************************)
(* The staging run: FileTracker::new, then generate_config_entry,          *)
(* mark_used and cleanup as a caller of the library may issue them.  A     *)
(* call that returns Err ends the run: every caller in the source          *)
(* propagates the error with `?`.                                          *)
(***************************************************************************)
Init ==
    /\ disk \in {[p \in S |-> InitialEntry(p)] : S \in SUBSET InitialNames}
    /\ files = <<>>
    /\ tpc = "start"
    /\ scanned = {}
    /\ disk0 = <<>>
    /\ sweep = NoSweep
    /\ staged = {}
    /\ copies = <<>>
    /\ marks = {}
    /\ entry = NoEntry
    /\ calls = 0
    /\ atomic = NoAtomic
    /\ EfiIdle
    /\ CatalogIdle
    /\ MainIdle

New ==
    /\ tpc = "start"
    /\ tpc' = "run"
    /\ files' = FileTracker_new(disk)
    /\ scanned' = DOMAIN FileTracker_new(disk)
    /\ disk0' = disk
    /\ UNCHANGED <<disk, sweep, staged, copies, marks, entry, calls, atomic, restVars>>

MarkUsed ==
    /\ tpc = "run"
    /\ calls < MaxCalls
    /\ \E path \in InitialNames :
          /\ files' = mark_used(files, path)
          /\ marks' = marks \cup {path}
    /\ calls' = calls + 1
    /\ UNCHANGED <<disk, tpc, scanned, disk0, sweep, staged, copies, entry, atomic, restVars>>

StagingStart ==
    [disk |-> disk, files |-> files, staged |-> staged, copies |-> copies,
     n |-> 0, ok |-> TRUE, uri |-> <<>>, loader |-> <<>>, lines |-> <<>>]

\* the state after a generate_config_entry call that returned r
Staged(generation, r, ok) ==
    /\ r.ok = ok
    /\ disk' = r.disk
    /\ files' = r.files
    /\ staged' = r.staged
    /\ copies' = r.copies
    /\ marks' = marks \cup {c.dest : c \in r.staged}
    /\ entry' = [generation |-> generation,
                 names |-> DOMAIN BootJson[generation].specialisations,
                 ok |-> r.ok, lines |-> r.lines]
    /\ tpc' = IF r.ok THEN "run" ELSE "failed"
    /\ calls' = calls + 1
    /\ UNCHANGED <<scanned, disk0, sweep, atomic, restVars>>

\* generate_config_entry returning Ok
GenerateConfigEntry ==
    /\ tpc = "run"
    /\ calls < MaxCalls
    /\ \E generation \in Generations :
       \E order \in SetToSeqs(DOMAIN BootJson[generation].specialisations) :
          Staged(generation,
                 generate_config_entry(generation, "system", TRUE, BootJson[generation],
                                       order, StagingStart, [at |-> 0, how |-> NoFail]),
                 TRUE)

\* generate_config_entry returning Err: boot.json unreadable (at = 0), a
\* source that does not resolve, or the copy of the at-th staged file failing
GenerateConfigEntryFails ==
    /\ tpc = "run"
    /\ calls < MaxCalls
    /\ \E generation \in Generations :
       \E order \in SetToSeqs(DOMAIN BootJson[generation].specialisations) :
       \E at \in 0..(2 * (1 + Len(order))), how \in StagingFails :
          Staged(generation,
                 generate_config_entry(generation, "system", at # 0, BootJson[generation],
                                       order, StagingStart, [at |-> at, how |-> how]),
                 FALSE)

\* the state after a cleanup() call that returned r
Swept(r) ==
    /\ disk' = r.fs
    /\ sweep' = [n |-> sweep.n + 1, ok |-> r.ok,
                 removed |-> (DOMAIN disk) \ (DOMAIN r.fs),
                 marked |-> marks,
                 before |-> disk]
    /\ tpc' = IF r.ok THEN "run" ELSE "failed"

Cleanup ==
    /\ tpc = "run"
    /\ calls < MaxCalls
    /\ \E order \in SetToSeqs(Unused(files, disk)) :
       \E failAt \in 0..Len(order) :
          Swept(cleanup(files, disk, order, failAt))
    /\ calls' = calls + 1
    /\ UNCHANGED <<files, scanned, disk0, staged, copies, marks, entry, atomic, restVars>>

Next == New \/ MarkUsed \/ GenerateConfigEntry \/ GenerateConfigEntryFails \/ Cleanup

Spec == Init /\ [][Next]_vars


(***************************************************************************)
(* copy_atomic and write_atomic called on their own, with a failure        *)
(* injected at any step, on a directory whose destinations hold an older   *)
(* file or nothing.                                                        *)
(***************************************************************************)
RefindConf == <<"refind", ".", "conf">>
Bzimage == <<"k", "-", "bzImage">>
BackupTmp == <<"backup", ".", "tmp">>

AtomicDests == {RefindConf, Bzimage, BackupTmp}

Old == <<"o1", "o2">>

Payloads == {<<"n1", "n2">>, <<"m1">>}

StagingIdle ==
    /\ files = <<>>
    /\ tpc = "idle"
    /\ scanned = {}
    /\ disk0 = <<>>
    /\ sweep = NoSweep
    /\ staged = {}
    /\ copies = <<>>
    /\ marks = {}
    /\ entry = NoEntry

InitAtomic ==
    /\ disk \in {[p \in S |-> RegularFile(Old)] : S \in SUBSET AtomicDests}
    /\ calls = 0
    /\ atomic = NoAtomic
    /\ StagingIdle
    /\ EfiIdle
    /\ CatalogIdle
    /\ MainIdle

\* the state after a copy_atomic or write_atomic call that returned r; a
\* rename of a file onto itself does nothing and cannot be the failing step
AtomicDone(op, dest, step, r) ==
    /\ step = "rename" => with_extension(dest, "tmp") # dest
    /\ disk' = r.fs
    /\ atomic' = [op |-> op, dest |-> dest, ok |-> r.ok, step |-> step, before |-> disk]
    /\ calls' = calls + 1
    /\ UNCHANGED <<stagingVars, restVars>>

CopyAtomic ==
    /\ calls < MaxAtomicCalls
    /\ \E dest \in AtomicDests, data \in Payloads :
       \E fail \in CopyFails(data) :
          AtomicDone("copy_atomic", dest, fail.step, copy_atomic(disk, data, dest, fail))

WriteAtomic ==
    /\ calls < MaxAtomicCalls
    /\ \E dest \in AtomicDests, data \in Payloads :
       \E fail \in WriteFails(data) :
          AtomicDone("write_atomic", dest, fail.step, write_atomic(disk, dest, data, fail))

NextAtomic == CopyAtomic \/ WriteAtomic

SpecAtomic == InitAtomic /\ [][NextAtomic]_vars

(***************************************************************************)
(* setup_efi_boot_entry, one action per firmware-tool invocation and one   *)
(* for the device and architecture lookups between them.  "spawn" is the   *)
(* tool failing to start: the only failure `.output()?` reports.           *)
(***************************************************************************)
Labels0 == {Refind, <<"rEFInd", " Boot Manager">>, <<"Linux">>}

OldLoader == <<"\\EFI\\old\\loader.efi">>

Orders == UNION {SetToSeqs(S) : S \in SUBSET Ids}

Firmwares ==
    UNION {{[entries |-> [id \in S |-> FwEntry(lab[id], OldLoader, <<>>, <<>>)],
             order |-> o] : lab \in [S -> Labels0], o \in Orders} : S \in SUBSET Ids}

OthersIdle ==
    /\ disk = <<>>
    /\ calls = 0
    /\ atomic = NoAtomic
    /\ StagingIdle

InitEfi ==
    /\ fw \in Firmwares
    /\ fw0 = fw
    /\ epc = "list"
    /\ cmds = <<>>
    /\ efi = NoEfi
    /\ OthersIdle
    /\ CatalogIdle
    /\ MainIdle

efiFrame == <<disk, calls, atomic, stagingVars, fw0, cat, mainVars, split>>

\* lines 13-31: list the entries, bail on a non-zero exit, find the entry
EfiList ==
    /\ epc = "list"
    /\ \E outcome \in {"ok", "fail", "spawn"} :
          /\ cmds' = IF outcome = "spawn" THEN cmds
                     ELSE Append(cmds, Command("list", NoArgs,
                                               IF outcome = "ok" THEN 0 ELSE 1))
          /\ epc' = IF outcome = "ok" THEN "locate" ELSE "err"
          /\ efi' = IF outcome = "ok"
                    THEN [efi EXCEPT !.output = efibootmgr_list(fw),
                                     !.existing_entry = entry_regex(efibootmgr_list(fw))]
                    ELSE efi
    /\ UNCHANGED <<fw, efiFrame>>

\* lines 34-43 without the bail! of the architecture match
lookup_fails_any_architecture(mounted, d, file) == mounted = <<>> \/ ~d.ok

\* lines 34-43: a `?` or the bail! returns; mounted = <<>> is
\* find_mounted_device's Err, `d` find_disk_device's result, file = <<>> the
\* bail! of the match
lookup_fails(mounted, d, file) == mounted = <<>> \/ ~d.ok \/ file = <<>>

\* the locals after lines 34-46, `failed` being lookup_fails' value
Located(mounted, arch, d, file, failed) ==
    /\ epc' = IF failed THEN "err"
              ELSE IF efi.existing_entry.found THEN "delete" ELSE "create"
    /\ efi' = IF failed
              THEN [efi EXCEPT !.efi_partition = mounted,
                               !.host_architecture = arch]
              ELSE [efi EXCEPT !.efi_partition = mounted,
                               !.host_architecture = arch,
                               !.efi_disk = d.dev,
                               !.partition_num = extract_partition_number(mounted, d.dev),
                               !.path = efi_path(file)]

\* lines 34-46: the ESP's device, its disk, the loader of the architecture
EfiLocate ==
    /\ epc = "locate"
    /\ \E mounted \in MountedDevices, arch \in Architectures :
          Located(mounted, arch, find_disk_device(mounted), boot_file(arch),
                  lookup_fails(mounted, find_disk_device(mounted), boot_file(arch)))
    /\ UNCHANGED <<fw, cmds, efiFrame>>

\* the state after the --delete-bootnum of lines 57-61 returned r; its exit
\* status is not looked at
Deleted(order, r, spawned) ==
    /\ efi' = [efi EXCEPT !.boot_order = order]
    /\ fw' = IF spawned THEN r.fw ELSE fw
    /\ cmds' = IF spawned
               THEN Append(cmds, Command("delete",
                                         [NoArgs EXCEPT !.b = Given(efi.existing_entry.m)],
                                         r.exit))
               ELSE cmds
    /\ epc' = IF spawned THEN "create" ELSE "err"

\* lines 50-61: capture the boot order, delete the entry
EfiDelete ==
    /\ epc = "delete"
    /\ \E outcome \in {"ok", "fail", "partial", "spawn"} :
          Deleted(boot_order_regex(efi.output).m,
                  efibootmgr_delete(fw, efi.existing_entry.m, outcome),
                  outcome # "spawn")
    /\ UNCHANGED efiFrame

\* the state after the --create of lines 64-85 or 88-105 returned r
Created(args, r, spawned) ==
    /\ fw' = IF spawned THEN r.fw ELSE fw
    /\ cmds' = IF spawned THEN Append(cmds, Command("create", args, r.exit)) ELSE cmds
    /\ epc' = IF spawned /\ r.exit = 0 THEN "ok" ELSE "err"
    /\ UNCHANGED efi

CreateArgs ==
    IF efi.existing_entry.found
    THEN create_args_existing(efi.existing_entry.m, efi.efi_disk, efi.partition_num,
                              efi.path, efi.boot_order)
    ELSE create_args_fresh(efi.efi_disk, efi.partition_num, efi.path)

\* lines 64-85 and 88-105: create the entry, bail on a non-zero exit
EfiCreate ==
    /\ epc = "create"
    /\ \E outcome \in {"ok", "fail", "spawn"} :
          Created(CreateArgs, efibootmgr_create(fw, CreateArgs, outcome),
                  outcome # "spawn")
    /\ UNCHANGED efiFrame

NextEfi == EfiList \/ EfiLocate \/ EfiDelete \/ EfiCreate

SpecEfi == InitEfi /\ [][NextEfi]_vars

(***************************************************************************)
(* generation.rs get_generations called on a lister output of up to        *)
(* MaxLines lines with a cap of up to MaxCap.                              *)
(***************************************************************************)
CatalogLines ==
    {<<" ", " ", "1", " ", " ", "d">>,
     <<" ", " ", "2", " ", " ", "d">>,
     <<" ", " ", "3", " ", " ", "d", " ", "c">>,
     <<"1", "0", "\t", "d">>,
     <<"+", "5">>,
     <<"x", " ", "4">>,
     <<"2", "x", " ", "d">>,
     <<>>}

Outputs == UNION {[1..n -> CatalogLines] : n \in 0..MaxLines}

InitCatalog ==
    /\ cat \in [stdout : Outputs, status : {"ok", "fail", "spawn"},
                max_generations : 0..MaxCap, done : {FALSE}, ok : {FALSE},
                generations : {<<>>}]
    /\ OthersIdle
    /\ EfiIdle
    /\ MainIdle

\* the state after get_generations returned r
Listed(r) ==
    cat' = [cat EXCEPT !.done = TRUE, !.ok = r.ok, !.generations = r.v]

GetGenerations ==
    /\ cat.status # "idle"
    /\ ~cat.done
    /\ Listed(get_generations(cat.stdout, cat.status, cat.max_generations))
    /\ UNCHANGED <<disk, calls, atomic, stagingVars, efiVars, mainVars, split>>

NextCatalog == GetGenerations

SpecCatalog == InitCatalog /\ [][NextCatalog]_vars

(***************************************************************************)
(* main.rs generate_config_string up to the choice of the default          *)
(* generation, on a host whose profile directory holds the links nix-env   *)
(* keeps: one system-<n>-link per listed generation, the pointer `system`  *)
(* to one of them, and /run/current-system.                                *)
(***************************************************************************)
RECURSIVE Ascending(_)
\* the numbers of S, smallest first
Ascending(S) ==
    IF S = {} THEN <<>>
    ELSE LET m == CHOOSE x \in S : \A y \in S : x <= y
         IN  <<m>> \o Ascending(S \ {m})

\* a line of `nix-env --list-generations`
ListerLine(n) == <<" ", " ", " ", ToString(n), " ", " ", " ", "d">>

ListerOutput(S) == [i \in 1..Cardinality(S) |-> ListerLine(Ascending(S)[i])]

TestProfile == "test"

\* what the `system` pointer may hold: nothing, or a relative or an
\* absolute link to a generation link
PointerTargets(S) ==
    {P("", system_dir("", n).name) : n \in S} \cup {system_dir("", n) : n \in S}

\* the links of a host with the system generations S
HostLinks(S) ==
    {[p \in {system_dir("", n) : n \in S} \cup ptr \cup cur \cup prof |->
         IF p = SystemPointer THEN t
         ELSE IF p = CurrentSystem THEN c
         ELSE IF p = system_dir(TestProfile, 1) THEN StoreB
         ELSE store[p]] :
        store \in [{system_dir("", n) : n \in S} -> StoreDirs],
        ptr \in {{}, {SystemPointer}}, t \in PointerTargets(S),
        cur \in {{}, {CurrentSystem}}, c \in StoreDirs,
        prof \in {{}, {system_dir(TestProfile, 1)}}}

Hosts ==
    UNION {{[links |-> l, cwd |-> cwd,
             stdout |-> [q \in {"", TestProfile} |->
                            IF q = "" THEN ListerOutput(S) ELSE ListerOutput({1})],
             status |-> st,
             profiles |-> IF system_dir(TestProfile, 1) \in DOMAIN l
                          THEN <<TestProfile>> ELSE <<>>] :
            l \in HostLinks(S), cwd \in {"/", Profiles}, st \in {"ok", "fail"}} :
           S \in SUBSET (1..MaxGen)}

InitMain ==
    /\ host \in Hosts
    /\ mpc = "gather"
    /\ gens = <<>>
    /\ default = NoGen
    /\ config = NoConfig
    /\ SplitIdle
    /\ OthersIdle
    /\ EfiIdle
    /\ CatalogIdle

mainFrame == <<disk, calls, atomic, stagingVars, efiVars, cat, host, split>>

RECURSIVE gather(_, _, _)
\* lines 67-70: `acc` extended by the generations of the profiles `ps`
gather(acc, ps, h) ==
    IF ps = <<>> THEN [ok |-> TRUE, v |-> acc]
    ELSE IF ~main_get_generations(ps[1], h.stdout[ps[1]], h.status).ok
    THEN [ok |-> FALSE, v |-> <<>>]
    ELSE gather(acc \o main_get_generations(ps[1], h.stdout[ps[1]], h.status).v,
                Tail(ps), h)

\* the state after lines 67-73 gathered r
Gathered(r) ==
    /\ mpc' = IF r.ok /\ r.v # <<>> THEN "select" ELSE "err"
    /\ gens' = r.v

\* lines 66-73: the generations of the system profile and of every named
\* profile; an error when a lister fails or there are none
MainGather ==
    /\ mpc = "gather"
    /\ Gathered(gather(<<>>, <<"">> \o host.profiles, host))
    /\ UNCHANGED <<default, config, mainFrame>>

\* lines 75-81: the default generation
MainSelectDefault ==
    /\ mpc = "select"
    /\ default' = select_default(gens, discover_default_target(host), host)
    /\ mpc' = "selected"
    /\ UNCHANGED <<gens, config, mainFrame>>

\* the state after lines 83-98 returned r
Rendered(r, noinitrd) ==
    /\ config' = [ok |-> r.ok, lines |-> r.lines, noinitrd |-> noinitrd]
    /\ mpc' = IF r.ok THEN "done" ELSE "err"

Timeouts == {[some |-> FALSE, v |-> 0], [some |-> TRUE, v |-> 5]}

\* lines 83-98: the submenu of every generation, newest first, the details
\* of the default generation, and the text
MainRender ==
    /\ mpc = "selected"
    /\ \E timeout \in Timeouts, extra \in {"none", "text", "missing"},
          noinitrd \in {{}, {StoreB}} :
          Rendered(build_config_text(timeout, extra,
                                     generation_details(default, host, noinitrd),
                                     submenu_text(sort_by_number_desc(gens), host,
                                                  noinitrd)),
                   noinitrd)
    /\ UNCHANGED <<gens, default, mainFrame>>

NextMain == MainGather \/ MainSelectDefault \/ MainRender

SpecMain == InitMain /\ [][NextMain]_vars

(***************************************************************************)
(* find_disk_device and extract_partition_number on the device nodes of    *)
(* the two forms, <name><n> and nvme<a>n<b>p<n>, and on nodes of neither;  *)
(* names of up to MaxNameLen letters, partition numbers of up to MaxDigits *)
(* digits.                                                                 *)
(***************************************************************************)
MaxNameLen == 4
MaxDigits == 2

NameLetters == {"n", "v", "m", "e", "p"}

DiskNames == UNION {[1..k -> NameLetters] : k \in 1..MaxNameLen}

PartitionNumbers == UNION {[1..k -> {"1", "3"}] : k \in 1..MaxDigits}

NvmeIndexes == {<<"0">>, <<"1">>, <<"1", "0">>}

\* a node of one of the two forms, with the disk and the number it is made of
Node(form, name, n) ==
    [NoSplit EXCEPT !.form = form,
                    !.partition = Dev(name \o (IF form = "nvme" THEN <<"p">> ELSE <<>>) \o n),
                    !.disk = Dev(name), !.n = n]

DeviceNodes ==
    {Node("simple", name, n) : name \in DiskNames, n \in PartitionNumbers}
        \cup {Node("nvme", <<"n", "v", "m", "e">> \o a \o <<"n">> \o b, n) :
                 a \in NvmeIndexes, b \in NvmeIndexes, n \in PartitionNumbers}
        \cup {[NoSplit EXCEPT !.form = "other", !.partition = d] :
                 d \in {Mmcblk0p1, Dev(<<"n", "v", "m", "e", "0", "n", "1">>),
                        Dev(<<"m", "e">>)}}

InitSplit ==
    /\ split \in DeviceNodes
    /\ OthersIdle
    /\ EfiIdle
    /\ CatalogIdle
    /\ host = NoHost /\ mpc = "idle" /\ gens = <<>> /\ default = NoGen
    /\ config = NoConfig

\* the state after find_disk_device returned d and, when it returned Ok,
\* extract_partition_number returned num
Splitted(d, num) ==
    split' = [split EXCEPT !.done = TRUE, !.ok = d.ok, !.efi_disk = d.dev,
                           !.partition_num = IF d.ok THEN num ELSE <<>>]

\* lines 35 and 46 of setup_efi_boot_entry
SplitDevice ==
    /\ split.form # "idle"
    /\ ~split.done
    /\ Splitted(find_disk_device(split.partition),
                extract_partition_number(split.partition,
                                         find_disk_device(split.partition).dev))
    /\ UNCHANGED <<disk, calls, atomic, stagingVars, efiVars, cat, mainVars>>

NextSplit == SplitDevice

SpecSplit == InitSplit /\ [][NextSplit]_vars

(***************************************************************************)
(* Claims                                                                  *)
(***************************************************************************)
RegularFiles(fs) == {p \in DOMAIN fs : fs[p].kind = "file"}

\* the run's first cleanup() has been made and no other since
FirstSweep == sweep.n = 1

\* C1: FileTracker::new records exactly the regular files N of the base
\* directory, and a cleanup() that returns Ok, M being the paths passed to
\* mark_used before it, has deleted exactly N \ M and left every file of M,
\* and every other file it found, on disk as it was.
C1_MarkAndSweep ==
    /\ tpc # "start" => scanned = RegularFiles(disk0)
    /\ (FirstSweep /\ sweep.ok) =>
          /\ sweep.removed = RegularFiles(disk0) \ sweep.marked
          /\ \A p \in (DOMAIN sweep.before) \ (RegularFiles(disk0) \ sweep.marked) :
                p \in DOMAIN disk /\ disk[p] = sweep.before[p]
          /\ \A p \in sweep.marked \cap RegularFiles(disk0) :
                p \in DOMAIN disk /\ disk[p] = disk0[p]

\* a cleanup() returned Ok having deleted a recorded file, kept a marked
\* recorded file and kept a marked file staged after the scan
C1_Witness ==
    /\ FirstSweep /\ sweep.ok
    /\ sweep.removed # {}
    /\ sweep.marked \cap RegularFiles(disk0) # {}
    /\ \E p \in sweep.marked : p \notin DOMAIN disk0 /\ p \in DOMAIN disk

\* C7: the destination of a staged file depends on the directory name and
\* the file name of its canonical source only, so sources resolving to the
\* same store path share one destination; within a run a destination is
\* copied at most once, a later call finding it present and only marking it.
C7_ContentAddressed ==
    /\ \A a, b \in staged :
          (a.canon.dir = b.canon.dir /\ a.canon.file = b.canon.file) => a.dest = b.dest
    /\ \A d \in DOMAIN copies : copies[d] <= 1
    /\ \A a \in staged :
          /\ a.dest \in DOMAIN files /\ files[a.dest]
          /\ a.dest \in DOMAIN disk
          /\ a.copied => a.dest \in DOMAIN copies

\* two sources resolving to one store path were staged, the first copied
\* and the second only marked
C7_Witness ==
    \E a, b \in staged :
        /\ a.source # b.source
        /\ a.canon = b.canon
        /\ a.copied /\ ~b.copied
        /\ copies[a.dest] = 1

Count(lines, t) == Cardinality({i \in 1..Len(lines) : lines[i].t = t})

Labels(lines, t) == {lines[i].v : i \in {j \in 1..Len(lines) : lines[j].t = t}}

\* C10: a generation without specialisations yields one menuentry labelled
\* with group and generation number and no submenuentry; one with k > 0
\* specialisations yields one outer menuentry enclosing k + 1 submenuentry
\* blocks, the first labelled "Default", the others carrying the k
\* specialisation names once each.
C10_FlatOrNested ==
    entry.ok =>
        LET k == Cardinality(entry.names)
            lines == entry.lines
            label == <<"NixOS ", "system", " Generation ", ToString(entry.generation)>>
        IN  /\ Count(lines, "menuentry") = 1
            /\ lines[1] = Line("menuentry", label)
            /\ lines[Len(lines)].t = "}"
            /\ k = 0 => /\ Count(lines, "submenuentry") = 0
                        /\ Count(lines, "}") = 1
            /\ k > 0 => /\ Count(lines, "submenuentry") = k + 1
                        /\ Count(lines, "}") = k + 2
                        /\ lines[2] = Line("submenuentry", <<"Default">>)
                        /\ Labels(SubSeq(lines, 3, Len(lines)), "submenuentry")
                              = {<<n>> : n \in entry.names}

\* an entry with two specialisations was generated
C10_Witness == entry.ok /\ Cardinality(entry.names) = 2


\* the entry the listing of the firmware, as the call found it, shows first
\* with a label beginning "rEFInd"
FirstRefind ==
    LET M == {i \in 1..Len(IdSeq) : /\ IdSeq[i] \in DOMAIN fw0.entries
                                     /\ fw0.entries[IdSeq[i]].label[1] = "rEFInd"}
    IN  IF M = {} THEN "" ELSE IdSeq[CHOOSE i \in M : \A j \in M : i <= j]

CreateCommands == {i \in 1..Len(cmds) : cmds[i].op = "create"}

\* C2: when the firmware lists an entry E labelled rEFInd and a boot order O,
\* a setup_efi_boot_entry that returns Ok leaves an entry with id E that
\* points at the new loader path, leaves the boot order equal to O and
\* every other entry as it was, and its create command carried -b E and -o O.
C2_ReconcileKeepsIdAndOrder ==
    (epc = "ok" /\ FirstRefind # "") =>
        /\ FirstRefind \in DOMAIN fw.entries
        /\ fw.entries[FirstRefind].loader = efi.path
        /\ fw.entries[FirstRefind].label = Refind
        /\ fw.order = fw0.order
        /\ DOMAIN fw.entries = DOMAIN fw0.entries
        /\ \A id \in DOMAIN fw0.entries \ {FirstRefind} : fw.entries[id] = fw0.entries[id]
        /\ \A i \in CreateCommands :
              /\ cmds[i].args.b = Given(FirstRefind)
              /\ cmds[i].args.o.given
              /\ parse_order(cmds[i].args.o.v) = fw0.order

\* entry 0001 of boot order [0000, 0001, 0002] was reconciled
C2_Witness ==
    /\ epc = "ok"
    /\ FirstRefind = "0001"
    /\ fw0.order = <<"0000", "0001", "0002">>
    /\ fw.entries["0001"].loader = <<"\\efi\\refind\\", "BOOTX64.EFI">>
    /\ fw0.entries["0001"].loader = OldLoader

\* C4: no firmware-tool command follows one that exited non-zero, and a
\* command that exited non-zero makes setup_efi_boot_entry return Err.
C4_ToolFailureIsFatal ==
    /\ \A i \in 1..Len(cmds) : cmds[i].exit # 0 => i = Len(cmds)
    /\ (\E i \in 1..Len(cmds) : cmds[i].exit # 0) => epc = "err"

\* the characters of the first whitespace-delimited token of a line run
\* from position a to position b
IsFirstToken(line, a, b) ==
    /\ a <= b
    /\ \A i \in 1..(a - 1) : line[i] \in Whitespace
    /\ \A i \in a..b : line[i] \notin Whitespace
    /\ b = Len(line) \/ line[b + 1] \in Whitespace

\* the characters a..b of the line are a decimal numeral, "+" allowed in front
IsNumeral(line, a, b) ==
    LET first == IF line[a] = "+" THEN a + 1 ELSE a
    IN  first <= b /\ \A i \in first..b : line[i] \in Digits

\* the value of the numeral at a..b
NumeralValue(line, a, b) ==
    LET Place[i \in 0..b] ==
            IF i < a THEN 0
            ELSE Place[i - 1] * (IF line[i] \in Digits THEN 10 ELSE 1)
                 + (IF line[i] \in Digits THEN DigitValue(line[i]) ELSE 0)
    IN  Place[b]

\* the lines of the lister output whose first token is a number
NumberLines(stdout) ==
    {i \in 1..Len(stdout) :
        \E a, b \in 1..Len(stdout[i]) :
            IsFirstToken(stdout[i], a, b) /\ IsNumeral(stdout[i], a, b)}

\* the number a number line begins with
LineNumber(line) ==
    LET ab == CHOOSE ab \in (1..Len(line)) \X (1..Len(line)) :
                  IsFirstToken(line, ab[1], ab[2]) /\ IsNumeral(line, ab[1], ab[2])
    IN  NumeralValue(line, ab[1], ab[2])

\* the number lines after position i of the output
After(stdout, i) == {j \in NumberLines(stdout) : j > i}

\* C8: get_generations fails when the lister does; otherwise, n being the
\* count of lines whose first whitespace-delimited token is a number, it
\* returns min(cap, n) numbers: those of the last min(cap, n) such lines, in
\* the lister's order, lines that begin otherwise being skipped.
C8_GenerationCap ==
    cat.done =>
        /\ cat.status # "ok" => ~cat.ok
        /\ cat.status = "ok" =>
              LET N == NumberLines(cat.stdout)
                  n == Cardinality(N)
                  k == IF cat.max_generations < n THEN cat.max_generations ELSE n
                  Kept == {i \in N : Cardinality(After(cat.stdout, i)) < k}
              IN  /\ cat.ok
                  /\ Len(cat.generations) = k
                  /\ \A i \in Kept :
                        cat.generations[k - Cardinality(After(cat.stdout, i))]
                            = LineNumber(cat.stdout[i])

\* generations 1, 2, 3 listed and cap 2: the call returned [2, 3]
C8_Witness ==
    /\ cat.done /\ cat.ok
    /\ cat.max_generations = 2
    /\ Cardinality(NumberLines(cat.stdout)) = 3
    /\ cat.generations = <<2, 3>>

\* the first of the two pointers that is a link, followed to its end
ActiveSystem ==
    IF SystemPointer \in DOMAIN host.links THEN resolve(SystemPointer, host.links)
    ELSE IF CurrentSystem \in DOMAIN host.links THEN resolve(CurrentSystem, host.links)
    ELSE [ok |-> FALSE, v |-> P("", <<>>)]

\* the gathered generations whose link resolves to the active system
ActiveGenerations ==
    {i \in 1..Len(gens) :
        /\ ActiveSystem.ok
        /\ resolve(system_dir(gens[i].profile, gens[i].number), host.links) = ActiveSystem}

\* C9: the default generation is a gathered generation whose link resolves
\* to what the active system link (the profile pointer, else the
\* running-system pointer) resolves to; when there is none, it is the
\* highest-numbered generation.
C9_DefaultIsActiveGeneration ==
    mpc = "selected" =>
        IF ActiveGenerations # {}
        THEN \E i \in ActiveGenerations : default = gens[i]
        ELSE \A i \in 1..Len(gens) : gens[i].number <= default.number

\* the positions of the lines of the text with keyword t, in order
Positions(lines, t) ==
    LET I == {i \in 1..Len(lines) : lines[i].t = t}
    IN  [k \in 1..Cardinality(I) |->
            CHOOSE i \in I : Cardinality({j \in I : j < i}) = k - 1]

\* the system a generation's link leads to
SystemOf(g) == resolve(system_dir(g.profile, g.number), host.links).v

\* what rEFInd is given for a store file of directory d named f
EfiNixos(d, f) == <<"/efi/nixos/", d, "-", f, ".efi">>

\* the orders the gathered generations can be listed in: from the greatest
\* number to the smallest, equal numbers as they were gathered
NewestFirst ==
    {pi \in [1..Len(gens) -> 1..Len(gens)] :
        /\ \A a, b \in 1..Len(gens) : a # b => pi[a] # pi[b]
        /\ \A a, b \in 1..Len(gens) :
              a < b => \/ gens[pi[a]].number > gens[pi[b]].number
                       \/ /\ gens[pi[a]].number = gens[pi[b]].number
                          /\ gens[pi[a]].profile # gens[pi[b]].profile
                          /\ pi[a] < pi[b]}

C12_DeviceSplit ==
    (split.done /\ split.form \in {"simple", "nvme"}) =>
        /\ split.ok
        /\ split.efi_disk = split.disk
        /\ split.partition_num = split.n

\* /dev/nvme0n1p3 was split into /dev/nvme0n1 and "3"
C12_Witness ==
    /\ split.done
    /\ split.partition = <<"/dev/", "n", "v", "m", "e", "0", "n", "1", "p", "3">>
    /\ split.efi_disk = <<"/dev/", "n", "v", "m", "e", "0", "n", "1">>
    /\ split.partition_num = <<"3">>

\* C13: a cleanup() called on a tracker whose earlier cleanup() returned Ok
\* deletes no file and returns Ok, whatever paths are tracked as used or
\* unused and whatever was marked or staged in between.
C13_SecondCleanupDeletesNothing ==
    sweep.n >= 2 =>
        /\ sweep.ok
        /\ sweep.removed = {}

\* two cleanups in a row on a tracker with a used file: the first deleted
\* an unused file, the second nothing
C13_Witness ==
    /\ sweep.n = 2 /\ sweep.ok
    /\ entry = NoEntry
    /\ marks # {}
    /\ \E p \in RegularFiles(disk0) : p \notin DOMAIN sweep.before
    /\ disk = sweep.before

\* C14: every path passed to mark_used is tracked as used from then on,
\* whether the scan had recorded it or not; marking it again leaves the
\* tracker as it is; the recorded paths never marked stay unused and no
\* other path is tracked.
C14_MarkUsedTotalIdempotent ==
    tpc # "start" =>
        /\ \A p \in marks : p \in DOMAIN files /\ files[p]
        /\ \A p \in marks : mark_used(files, p) = files
        /\ \A p \in scanned \ marks : p \in DOMAIN files /\ ~files[p]
        /\ DOMAIN files = scanned \cup marks

\* three mark_used calls on two paths, one recorded by the scan and one not
C14_Witness ==
    /\ tpc = "run" /\ calls = 3
    /\ entry = NoEntry /\ sweep.n = 0
    /\ Cardinality(marks) = 2
    /\ marks \cap scanned # {}
    /\ marks \ scanned # {}

\* the parameter string of a boot record as an options line is to carry it
OptionsOf(b) ==
    escape_quotes(join(<<<<"init=">> \o b.init>> \o b.kernel_params, <<" ">>))

\* C15: every options line of an emitted entry carries init=<init path>
\* followed by the record's parameters joined by single spaces, with every
\* double quote of that string doubled: the first line that of the
\* generation's record, the others those of its specialisations.
C15_OptionsLineEscaped ==
    entry.ok =>
        LET b == BootJson[entry.generation]
            lines == entry.lines
            o == Positions(lines, "options")
        IN  /\ Len(o) >= 1
            /\ lines[o[1]].v = OptionsOf(b)
            /\ \A k \in 2..Len(o) :
                  lines[o[k]].v \in {OptionsOf(b.specialisations[n]) :
                                        n \in DOMAIN b.specialisations}

\* setup_efi_boot_entry returned before line 48: the listing could not be
\* run or exited non-zero, or the lookups of lines 34-43 were given a mount
\* point without a device, a device whose disk cannot be determined, or an
\* architecture outside the table
ListFailed ==
    \/ epc = "err" /\ cmds = <<>>
    \/ cmds # <<>> /\ cmds[1].op = "list" /\ cmds[1].exit # 0

LookupFailed ==
    /\ efi.host_architecture # <<>>
    /\ \/ efi.efi_partition = <<>>
       \/ ~find_disk_device(efi.efi_partition).ok
       \/ efi.host_architecture[1] \notin {"x86_64", "i686", "aarch64"}

\* C16: when the listing fails, the ESP's device or its disk cannot be
\* determined, or the architecture is not x86_64, i686 or aarch64, the call
\* ends in an error, no delete or create command was issued, and the
\* firmware's entries and boot order are what they were.
C16_NoMutationOnEarlyFailure ==
    ListFailed \/ LookupFailed =>
        /\ epc = "err"
        /\ \A i \in DOMAIN cmds : cmds[i].op = "list"
        /\ fw = fw0

\* a firmware with a rEFInd entry, listed successfully, and a call that
\* failed on an unsupported architecture with the disk determined
C16_Witness ==
    /\ epc = "err"
    /\ efi.existing_entry.found
    /\ fw0.order # <<>>
    /\ efi.efi_partition = Nvme0n1p3
    /\ find_disk_device(efi.efi_partition).ok
    /\ efi.host_architecture[1] = "riscv64"

\* C3: after a copy_atomic or write_atomic that failed, at whatever step,
\* the destination path is absent or holds what it held before the call.
C3_DestinationIntactOnFailure ==
    (atomic.op # "none" /\ ~atomic.ok) =>
        \/ atomic.dest \notin DOMAIN disk
        \/ /\ atomic.dest \in DOMAIN atomic.before
           /\ disk[atomic.dest] = atomic.before[atomic.dest]

=============================================================================
